---- MODULE Spec2Model ----
(***************************************************************************)
(* A model of lib.esm/crypto/signing-key.js: the SigningKey facade over    *)
(* the curve engine (@noble/secp256k1), the byte utilities (../utils) and  *)
(* the Signature container (./signature.js).                               *)
(*                                                                         *)
(* The curve is scaled down: y^2 = x^3 + 7 over F_67, a group of prime     *)
(* order 79, so that every scalar multiplication, point decoding, ECDSA    *)
(* signature and recovery is computed, not assumed.  A "32-byte word" of   *)
(* the program is one number of the model; a byte string is a record of    *)
(* its representation, its byte length and its words.                      *)
(***************************************************************************)
EXTENDS Integers, Sequences, FiniteSets, TLC

\* ------------------------------------------------------------ state
VARIABLES
    keys,       \* keys[i]: the #privateKey of the i-th SigningKey instance
    ctorArg,    \* ctorArg[i]: the value the i-th instance was constructed from
    last,       \* the last operation: its arguments, outcome and engine calls
    firstSign   \* the first successful sign call: instance, key, digest and
                \* signature, and whether another operation was called since

vars == <<keys, ctorArg, last, firstSign>>

\* ------------------------------------------------------------ bounds
\* Instances of SigningKey that may exist at once.
MaxInst == 2
\* Private scalars 1..MaxScalar are offered to the constructor, together with
\* the out-of-range scalar CurveN.
MaxScalar == 2
\* Digest words 0..MaxDigest are offered.
MaxDigest == 1

\* In the specification of the functions: the instance's private scalar is
\* one of 0..MaxFnScalar, digest words are 0..MaxFnDigest, and the other
\* party of a shared secret has a scalar in 1..MaxPeer.
MaxFnScalar == 12
MaxFnDigest == 3
MaxPeer == 3

\* ------------------------------------------------- the curve (engine)
\* y^2 = x^3 + 7 over F_67: 78 points and the point at infinity, a group of
\* prime order 79 generated by G.  The order is above the field size, so the
\* x of a point is below the order and the engine's recovery id is 0 or 1,
\* as it is on secp256k1 for every signature but a share of about 2^-128.
CurveP == 67
CurveN == 79
CurveB == 7
Gx == 2
Gy == 22

Zero == <<0, 0>>
G == <<Gx, Gy>>

InvP == [a \in 1..(CurveP - 1) |-> CHOOSE b \in 1..(CurveP - 1) : (a * b) % CurveP = 1]
InvN == [a \in 1..(CurveN - 1) |-> CHOOSE b \in 1..(CurveN - 1) : (a * b) % CurveN = 1]

\* a - b in F_p, for a, b in 0..p-1
SubP(a, b) == (a + CurveP - b) % CurveP

IsOnCurve(pt) ==
    /\ pt[1] \in 0..(CurveP - 1)
    /\ pt[2] \in 0..(CurveP - 1)
    /\ (pt[2] * pt[2]) % CurveP = (pt[1] * pt[1] * pt[1] + CurveB) % CurveP

\* Point.add: affine addition, Zero the point at infinity.
PointAdd(a, b) ==
    IF a = Zero THEN b
    ELSE IF b = Zero THEN a
    ELSE IF a[1] = b[1] /\ (a[2] + b[2]) % CurveP = 0 THEN Zero
    ELSE LET lam == IF a = b
                    THEN (3 * a[1] * a[1] * InvP[(2 * a[2]) % CurveP]) % CurveP
                    ELSE (SubP(b[2], a[2]) * InvP[SubP(b[1], a[1])]) % CurveP
             x3 == SubP(SubP((lam * lam) % CurveP, a[1]), b[1])
             y3 == SubP((lam * SubP(a[1], x3)) % CurveP, a[2])
         IN <<x3, y3>>

\* Point.multiply: double-and-add.
RECURSIVE PointMul(_, _)
PointMul(k, pt) ==
    IF k = 0 THEN Zero
    ELSE LET half == PointMul(k \div 2, pt)
             dbl == PointAdd(half, half)
         IN IF k % 2 = 1 THEN PointAdd(dbl, pt) ELSE dbl

\* ------------------------------------------------ values and outcomes
\* A BytesLike value: repr "bytes" (a Uint8Array), "hex" (a 0x-prefixed hex
\* string), "rawhex" (a hex string without the 0x prefix, the engine's own
\* string form) or "text" (a string that is no data).
Bytes(repr, len, data) == [repr |-> repr, len |-> len, data |-> data]

Redacted == Bytes("text", 0, <<>>)
NullValue == Bytes("null", 0, <<>>)

Ok(v) == [kind |-> "ok", value |-> v]
\* What the engine returns as null / undefined.
Null == [kind |-> "null"]
\* An exception thrown inside the engine (a plain Error).
EngineThrow(msg) == [kind |-> "engine", message |-> msg]
\* assertArgument(false, message, name, value): an INVALID_ARGUMENT error.
ArgError(message, name, value) ==
    [kind |-> "error", code |-> "INVALID_ARGUMENT",
     argument |-> name, value |-> value, message |-> message]

\* What an operation of the facade did: its outcome and the calls it made
\* into the engine and the Signature container, in order.
Ret(out, calls) == [out |-> out, calls |-> calls]

\* ------------------------------------------------------- ../utils
dataLength(v) == v.len
getBytes(v) == Bytes("bytes", v.len, v.data)
getBytesCopy(v) == Bytes("bytes", v.len, v.data)
hexlify(v) == Bytes("hex", v.len, v.data)
concat(vs) == Bytes("hex", vs[1].len + vs[2].len, vs[1].data \o vs[2].data)
\* toHex("0x" + n.toString(16), width)
toHex(n, width) == Bytes("hex", width, <<n>>)
\* hexString.substring(2): the 0x prefix dropped
substring2(v) == Bytes("rawhex", v.len, v.data)
\* "0x" + rawHex
prefix0x(v) == Bytes("hex", v.len, v.data)

\* ------------------------------------------------------- ./hmac.js
RECURSIVE MacFold(_, _)
MacFold(acc, words) ==
    IF words = <<>> THEN acc
    ELSE MacFold((acc * 3 + Head(words) + 1) % 251, Tail(words))

\* computeHmac("sha256", key, data): a keyed function of the key and the data
\* alone (a stand-in for HMAC-SHA256 on the scaled-down words).
computeHmac(key, data) == MacFold((key.data[1] * 7 + 5) % 251, data.data)

\* A MAC that mixes in state an earlier signing call left behind.
hmacSha256Sync_Stateful(key, messages) ==
    getBytes(Bytes("hex", 32, <<computeHmac(key, concat(messages))
                                    + (IF firstSign.set THEN 1 ELSE 0)>>))

\* secp256k1.utils.hmacSha256Sync = function (key, ...messages): the MAC the
\* engine calls for its deterministic nonce.
hmacSha256Sync(key, messages) ==
    getBytes(Bytes("hex", 32, <<computeHmac(key, concat(messages))>>))

\* ------------------------------------------- the engine's operations
\* ensureBytes: the engine takes a Uint8Array or a hex string WITHOUT the 0x
\* prefix; anything else is thrown out.
ensureBytes(v) ==
    IF v.repr \in {"bytes", "rawhex"}
    THEN Ok(Bytes("bytes", v.len, v.data))
    ELSE EngineThrow("Invalid byte sequence")

\* normalizePrivateKey: 32 bytes, 0 < key < n
normalizePrivateKey(v) ==
    LET eb == ensureBytes(v) IN
    IF eb.kind # "ok" THEN eb
    ELSE IF eb.value.len # 32 \/ Len(eb.value.data) # 1
    THEN EngineThrow("Expected 32 bytes of private key")
    ELSE IF eb.value.data[1] \in 1..(CurveN - 1)
    THEN Ok(eb.value.data[1])
    ELSE EngineThrow("Expected private key: 0 < key < curve.n")

\* Point.toRawBytes(isCompressed)
toRawBytes(pt, compressed) ==
    IF compressed
    THEN Bytes("bytes", 33, <<2 + (pt[2] % 2), pt[1]>>)
    ELSE Bytes("bytes", 65, <<4, pt[1], pt[2]>>)

\* Point.toHex(isCompressed): the engine's hex has no 0x prefix
pointToHex(pt, compressed) ==
    LET b == toRawBytes(pt, compressed) IN Bytes("rawhex", b.len, b.data)

\* The roots y of y^2 = x^3 + 7 with the parity asked for.
Roots(x, odd) ==
    {y \in 0..(CurveP - 1) :
        /\ (y * y) % CurveP = (x * x * x + CurveB) % CurveP
        /\ y % 2 = odd}

\* Point.fromHex: 33 bytes with header 02/03, or 65 bytes with header 04.
PointFromHex(v) ==
    LET eb == ensureBytes(v) IN
    IF eb.kind # "ok" THEN eb
    ELSE LET b == eb.value IN
         IF b.len = 33 /\ Len(b.data) = 2 /\ b.data[1] \in {2, 3}
         THEN IF b.data[2] \in 0..(CurveP - 1) /\ Roots(b.data[2], b.data[1] - 2) # {}
              THEN Ok(<<b.data[2], CHOOSE y \in Roots(b.data[2], b.data[1] - 2) : TRUE>>)
              ELSE EngineThrow("Point is not on elliptic curve")
         ELSE IF b.len = 65 /\ Len(b.data) = 3 /\ b.data[1] = 4
         THEN IF IsOnCurve(<<b.data[2], b.data[3]>>)
              THEN Ok(<<b.data[2], b.data[3]>>)
              ELSE EngineThrow("Point is not on elliptic curve")
         ELSE EngineThrow("Point.fromHex: received invalid point")

\* secp256k1.getPublicKey(privateKey, isCompressed)
getPublicKey(priv, compressed) ==
    LET k == normalizePrivateKey(priv) IN
    IF k.kind # "ok" THEN k
    ELSE Ok(toRawBytes(PointMul(k.value, G), compressed))

\* truncateHash: the digest as a scalar
truncateHash(msg) == msg.data[1] % CurveN

\* Signature.toDERRawBytes / Signature.fromHex (DER): a tagged pair.
toDERRawBytes(sig) == Bytes("bytes", 70, <<48, sig.r, sig.s>>)

isWithinCurveOrder(x) == x \in 1..(CurveN - 1)

SignatureFromDER(v) ==
    LET eb == ensureBytes(v) IN
    IF eb.kind # "ok" THEN eb
    ELSE IF Len(eb.value.data) # 3 \/ eb.value.data[1] # 48
    THEN EngineThrow("Invalid signature: incorrect tag")
    ELSE IF isWithinCurveOrder(eb.value.data[2]) /\ isWithinCurveOrder(eb.value.data[3])
    THEN Ok([r |-> eb.value.data[2], s |-> eb.value.data[3]])
    ELSE EngineThrow("Invalid Signature: r and s must be 0 < x < n")

\* Signature.fromCompact: 64 bytes, r || s
SignatureFromCompact(v) ==
    LET eb == ensureBytes(v) IN
    IF eb.kind # "ok" THEN eb
    ELSE IF eb.value.len # 64 \/ Len(eb.value.data) # 2
    THEN EngineThrow("Signature.fromCompact: expected 64 bytes")
    ELSE IF isWithinCurveOrder(eb.value.data[1]) /\ isWithinCurveOrder(eb.value.data[2])
    THEN Ok([r |-> eb.value.data[1], s |-> eb.value.data[2]])
    ELSE EngineThrow("Invalid Signature: r and s must be 0 < x < n")

\* The i-th candidate nonce of the deterministic (RFC 6979 style) generator:
\* a function of the private key, the digest and the retry count, through
\* the MAC.
DrbgNonce(priv, msg, i) ==
    1 + (hmacSha256Sync(priv, <<msg, Bytes("bytes", 1, <<i>>)>>).data[1] % (CurveN - 1))

\* The low-s form of a signature (canonical: true): s above n/2 is replaced
\* by n - s, which flips the parity bit of the recovery id.
normalizeS(r, s, recovery) ==
    IF s > CurveN \div 2
    THEN [r |-> r, s |-> CurveN - s,
          recid |-> IF recovery % 2 = 1 THEN recovery - 1 ELSE recovery + 1]
    ELSE [r |-> r, s |-> s, recid |-> recovery]

\* The signature of the nonce k with q = k * G, or Null when r or s is zero:
\* r = q.x mod n, s = (m + d * r) / k, recovery = (q.x = r ? 0 : 2) | (q.y & 1)
sigOfPoint(q, k, m, d) ==
    IF q[1] % CurveN = 0 \/ (InvN[k] * ((m + d * (q[1] % CurveN)) % CurveN)) % CurveN = 0
    THEN Null
    ELSE Ok(normalizeS(q[1] % CurveN,
                       (InvN[k] * ((m + d * (q[1] % CurveN)) % CurveN)) % CurveN,
                       (IF q[1] = q[1] % CurveN THEN 0 ELSE 2) + (q[2] % 2)))

\* kmdToSig: the signature of one nonce
kmdToSig(k, m, d) == sigOfPoint(PointMul(k, G), k, m, d)

\* The retry loop of the nonce generator: the first candidate with a
\* signature.
RECURSIVE SignLoop(_, _, _, _)
SignStep(sig, priv, msg, d, i) ==
    IF sig.kind = "ok" THEN sig
    ELSE IF i >= CurveN THEN EngineThrow("no nonce found")
    ELSE SignLoop(priv, msg, d, i + 1)

SignLoop(priv, msg, d, i) ==
    SignStep(kmdToSig(DrbgNonce(priv, msg, i), truncateHash(msg), d), priv, msg, d, i)

signRecovered(sig) ==
    IF sig.kind # "ok" THEN sig
    ELSE Ok([der |-> toDERRawBytes(sig.value), recid |-> sig.value.recid])

signWithKey(msg, priv, d) ==
    IF d.kind # "ok" THEN d
    ELSE signRecovered(SignLoop(priv, msg, d.value, 0))

\* secp256k1.signSync(msgHash, privateKey, {recovered: true, canonical: true}):
\* [DER signature, recovery id]
signSync(msg, priv) == signWithKey(msg, priv, normalizePrivateKey(priv))

\* secp256k1.recoverPublicKey(msgHash, signature, recovery): the 65-byte key,
\* or null when the signature and digest recover no point of the curve.
engineRecoverPublicKey(msg, der, recovery) ==
    LET sg == SignatureFromDER(der) IN
    IF sg.kind # "ok" \/ recovery \notin 0..3 THEN Null
    ELSE LET r == sg.value.r
             s == sg.value.s
             h == truncateHash(msg)
             radj == IF recovery \in {2, 3} THEN r + CurveN ELSE r
             rinv == InvN[radj % CurveN]
             u1 == ((CurveN - h) * rinv) % CurveN
             u2 == (s * rinv) % CurveN
             R == PointFromHex(Bytes("bytes", 33, <<2 + (recovery % 2), radj>>))
         IN IF R.kind # "ok" THEN Null
            ELSE LET Q == PointAdd(PointMul(u1, G), PointMul(u2, R.value)) IN
                 IF Q = Zero THEN Null
                 ELSE Ok(toRawBytes(Q, FALSE))

\* secp256k1.getSharedSecret(privateA, publicB): the shared point
getSharedSecret(privA, pubB) ==
    LET b == PointFromHex(pubB) IN
    IF b.kind # "ok" THEN b
    ELSE LET k == normalizePrivateKey(privA) IN
         IF k.kind # "ok" THEN k
         ELSE Ok(toRawBytes(PointMul(k.value, b.value), FALSE))

\* ------------------------------------------------- ./signature.js
\* Signature.from(sig): r and s of 32 bytes each, and the recovery indicator
\* in either form, the legacy byte (27/28) or the bare parity (0/1).
SignatureFrom(sig) ==
    IF dataLength(sig.r) # 32 THEN ArgError("invalid r", "signature", sig)
    ELSE IF dataLength(sig.s) # 32 THEN ArgError("invalid s", "signature", sig)
    ELSE IF sig.v \in {27, 28}
    THEN Ok([r |-> hexlify(sig.r), s |-> hexlify(sig.s), v |-> sig.v, yParity |-> sig.v - 27])
    ELSE IF sig.v \in {0, 1}
    THEN Ok([r |-> hexlify(sig.r), s |-> hexlify(sig.s), v |-> 27 + sig.v, yParity |-> sig.v])
    ELSE ArgError("invalid v", "signature", sig)

\* ------------------------------------------------ class SigningKey
\* A constructor without the length check.
construct_NoLengthCheck(privateKey) == Ok(hexlify(privateKey))

\* A constructor that stores the caller's value as it came.
construct_KeepsInput(privateKey) ==
    IF dataLength(privateKey) # 32
    THEN ArgError("invalid private key", "privateKey", Redacted)
    ELSE Ok(privateKey)

\* constructor(privateKey): the value the new instance stores, or the error.
construct(privateKey) ==
    IF dataLength(privateKey) # 32
    THEN ArgError("invalid private key", "privateKey", Redacted)
    ELSE Ok(hexlify(privateKey))

\* A raw key passed on as it is, without the 0x04 prefix.
rawToUncompressed_NoPrefix(bytes) == bytes

\* computePublicKey, lines 84-89: a raw 64-byte key (x || y) becomes the
\* uncompressed key, 0x04 || x || y
rawToUncompressed(bytes) ==
    IF bytes.len = 64 THEN Bytes("bytes", 65, <<4>> \o bytes.data) ELSE bytes

\* computePublicKey, lines 81-82: a private key
publicOfPrivate(pubKey) ==
    IF pubKey.kind # "ok" THEN Ret(pubKey, <<"getPublicKey">>)
    ELSE Ret(Ok(hexlify(pubKey.value)), <<"getPublicKey">>)

\* computePublicKey, lines 90-91: a public key, decoded and encoded again
publicOfPoint(point, compressed) ==
    IF point.kind # "ok" THEN Ret(point, <<"Point.fromHex">>)
    ELSE Ret(Ok(hexlify(toRawBytes(point.value, compressed))),
             <<"Point.fromHex", "toRawBytes">>)

\* static computePublicKey(key, compressed)
computePublicKey(key, compressed) ==
    IF getBytes(key).len = 32
    THEN publicOfPrivate(getPublicKey(getBytes(key), compressed))
    ELSE publicOfPoint(PointFromHex(rawToUncompressed(getBytes(key))), compressed)

\* sign with v the other way round.
signPack_Swapped(sig, recid) ==
    IF sig.kind # "ok" THEN Ret(sig, <<"signSync", "Signature.fromHex">>)
    ELSE Ret(SignatureFrom([r |-> toHex(sig.value.r, 32),
                            s |-> toHex(sig.value.s, 32),
                            v |-> IF recid # 0 THEN 27 ELSE 28]),
             <<"signSync", "Signature.fromHex", "Signature.from">>)

\* sign, lines 51-56: the engine's DER signature parsed and packed with v
signPack(sig, recid) ==
    IF sig.kind # "ok" THEN Ret(sig, <<"signSync", "Signature.fromHex">>)
    ELSE Ret(SignatureFrom([r |-> toHex(sig.value.r, 32),
                            s |-> toHex(sig.value.s, 32),
                            v |-> IF recid # 0 THEN 28 ELSE 27]),
             <<"signSync", "Signature.fromHex", "Signature.from">>)

\* sign, lines 47-51: what signSync returned, [sigDer, recid]
signResult(res) ==
    IF res.kind # "ok" THEN Ret(res, <<"signSync">>)
    ELSE signPack(SignatureFromDER(res.value.der), res.value.recid)

\* sign without the check of the digest's length.
sign_NoDigestCheck(priv, digest) ==
    signResult(signSync(getBytesCopy(digest), getBytesCopy(priv)))

\* sign(digest), on the instance whose #privateKey is priv
sign(priv, digest) ==
    IF dataLength(digest) # 32
    THEN Ret(ArgError("invalid digest length", "digest", digest), <<>>)
    ELSE signResult(signSync(getBytesCopy(digest), getBytesCopy(priv)))

\* computeShardSecret(other), on the instance whose #privateKey is priv
computeShardSecret(priv, other) ==
    LET pubKey == computePublicKey(other, FALSE) IN
    IF pubKey.out.kind # "ok" THEN pubKey
    ELSE LET secret == getSharedSecret(getBytesCopy(priv), pubKey.out.value)
             calls == pubKey.calls \o <<"getSharedSecret">>
         IN IF secret.kind # "ok" THEN Ret(secret, calls)
            ELSE Ret(Ok(hexlify(secret.value)), calls)

\* recoverPublicKey returning whatever the engine returned, null included.
recoverResult_NoNullCheck(pubKey, signature, calls) ==
    IF pubKey # Null THEN Ret(Ok(hexlify(pubKey.value)), calls)
    ELSE Ret(Ok(NullValue), calls)

\* recoverPublicKey, lines 102-105: the key, or the error when the engine
\* returned null
recoverResult(pubKey, signature, calls) ==
    IF pubKey # Null THEN Ret(Ok(hexlify(pubKey.value)), calls)
    ELSE Ret(ArgError("invalid signautre for digest", "signature", signature), calls)

\* recoverPublicKey handing the engine v (27/28) where it takes the parity.
recoverCompact_LegacyV(digest, signature, sig, compact) ==
    IF compact.kind # "ok"
    THEN Ret(compact, <<"Signature.from", "Signature.fromCompact">>)
    ELSE recoverResult(engineRecoverPublicKey(getBytesCopy(digest),
                                              toDERRawBytes(compact.value), sig.v),
                       signature,
                       <<"Signature.from", "Signature.fromCompact", "recoverPublicKey">>)

\* recoverPublicKey, lines 100-101: the compact signature as DER, and the
\* engine's recovery with the parity of the signature
recoverCompact(digest, signature, sig, compact) ==
    IF compact.kind # "ok"
    THEN Ret(compact, <<"Signature.from", "Signature.fromCompact">>)
    ELSE recoverResult(engineRecoverPublicKey(getBytesCopy(digest),
                                              toDERRawBytes(compact.value), sig.yParity),
                       signature,
                       <<"Signature.from", "Signature.fromCompact", "recoverPublicKey">>)

\* recoverPublicKey, lines 99-100: the signature parsed, r || s handed to the
\* engine
recoverParsed(digest, signature, sig) ==
    IF sig.kind # "ok" THEN Ret(sig, <<"Signature.from">>)
    ELSE recoverCompact(digest, signature, sig.value,
                        SignatureFromCompact(
                            getBytesCopy(concat(<<sig.value.r, sig.value.s>>))))

\* static recoverPublicKey(digest, signature)
recoverPublicKey(digest, signature) ==
    IF dataLength(digest) # 32
    THEN Ret(ArgError("invalid digest length", "digest", digest), <<>>)
    ELSE recoverParsed(digest, signature, SignatureFrom(signature))

\* static addPoints(p0, p1, compressed)
addPoints(p0, p1, compressed) ==
    LET k0 == computePublicKey(p0, FALSE) IN
    IF k0.out.kind # "ok" THEN k0
    ELSE LET pub0 == PointFromHex(substring2(k0.out.value))
             c0 == k0.calls \o <<"Point.fromHex">>
         IN IF pub0.kind # "ok" THEN Ret(pub0, c0)
            ELSE LET k1 == computePublicKey(p1, FALSE) IN
                 IF k1.out.kind # "ok" THEN Ret(k1.out, c0 \o k1.calls)
                 ELSE LET pub1 == PointFromHex(substring2(k1.out.value))
                          c1 == c0 \o k1.calls \o <<"Point.fromHex">>
                      IN IF pub1.kind # "ok" THEN Ret(pub1, c1)
                         ELSE Ret(Ok(prefix0x(pointToHex(
                                          PointAdd(pub0.value, pub1.value), compressed))),
                                  c1 \o <<"Point.add">>)

\* ------------------------------------------------------ initial state
NoCall == [op |-> "none", inst |-> 0, args |-> <<>>, out |-> Ok(Redacted), calls |-> <<>>]
NoSign == [set |-> FALSE]
\* firstSign once an operation other than sign has been called
Since == IF firstSign.set THEN [firstSign EXCEPT !.others = TRUE] ELSE firstSign

Init ==
    /\ keys = <<>>
    /\ ctorArg = <<>>
    /\ last = NoCall
    /\ firstSign = NoSign

\* --------------------------------------------------------- inputs
\* The three encodings of a point: raw (64), uncompressed (65), compressed (33).
Encodings(pt) ==
    {Bytes("hex", 64, <<pt[1], pt[2]>>),
     Bytes("bytes", 65, <<4, pt[1], pt[2]>>),
     Bytes("hex", 33, <<2 + (pt[2] % 2), pt[1]>>)}

\* The instances whose private key the engine accepts.
ValidInst == {i \in 1..Len(keys) : keys[i].data[1] \in 1..(CurveN - 1)}

\* Keys no encoding allows: wrong lengths, a prefix that does not fit the
\* length, an x with no point, a point off the curve.
BadKeys ==
    {Bytes("hex", 31, <<1>>), Bytes("hex", 34, <<2, 2>>), Bytes("hex", 66, <<4, 2, 22>>),
     Bytes("hex", 33, <<4, 2>>), Bytes("bytes", 65, <<2, 2, 22>>),
     Bytes("hex", 33, <<2, 0>>), Bytes("hex", 65, <<4, 2, 23>>)}

\* Signatures nobody signed: r out of range, r with no point, r of a point,
\* in the parity form, the legacy form and with an unknown v, and an r that
\* is not 32 bytes.
FuzzSigs ==
    {[r |-> toHex(0, 32), s |-> toHex(1, 32), v |-> 28],
     [r |-> toHex(1, 32), s |-> toHex(1, 32), v |-> 28],
     [r |-> toHex(1, 32), s |-> toHex(1, 32), v |-> 0],
     [r |-> toHex(2, 32), s |-> toHex(1, 32), v |-> 0],
     [r |-> toHex(2, 32), s |-> toHex(1, 32), v |-> 27],
     [r |-> toHex(2, 32), s |-> toHex(1, 32), v |-> 29],
     [r |-> toHex(2, 31), s |-> toHex(1, 32), v |-> 27]}

\* The signature the last call of sign returned, if it returned one.
Signed == IF last.op = "sign" /\ last.out.kind = "ok" THEN {last.out.value} ELSE {}

\* Inputs of the life-cycle specification: a few of each kind.
CtorInputs ==
    {Bytes("bytes", 32, <<1>>), Bytes("hex", 32, <<CurveN>>),
     Bytes("hex", 31, <<1>>), Bytes("bytes", 33, <<0, 1>>)}
        \cup {Bytes("hex", 32, <<k>>) : k \in 2..MaxScalar}

DigestInputs ==
    {Bytes("hex", 32, <<d>>) : d \in 0..MaxDigest} \cup {Bytes("hex", 31, <<1>>)}

KeyInputs ==
    {keys[i] : i \in 1..Len(keys)}
        \cup {Bytes("bytes", 65, <<4>> \o PointMul(keys[i].data[1], G)) : i \in ValidInst}
        \cup {Bytes("hex", 31, <<1>>), Bytes("hex", 33, <<4, 2>>)}

PointInputs == {keys[i] : i \in 1..Len(keys)} \cup {Bytes("hex", 66, <<4, 2, 22>>)}

SigInputs ==
    Signed \cup {[r |-> toHex(0, 32), s |-> toHex(1, 32), v |-> 28],
                 [r |-> toHex(1, 32), s |-> toHex(1, 32), v |-> 0]}

\* ---------------------------------------------------------- actions
Called(op, inst, args, r) ==
    [op |-> op, inst |-> inst, args |-> args, out |-> r.out, calls |-> r.calls]

\* new SigningKey(privateKey)
Construct(privateKey) ==
    LET r == construct(privateKey) IN
    /\ r.kind = "ok" => Len(keys) < MaxInst
    /\ keys' = IF r.kind = "ok" THEN Append(keys, r.value) ELSE keys
    /\ ctorArg' = IF r.kind = "ok" THEN Append(ctorArg, privateKey) ELSE ctorArg
    /\ last' = Called("constructor", IF r.kind = "ok" THEN Len(keys) + 1 ELSE 0,
                      [privateKey |-> privateKey], Ret(r, <<>>))
    /\ firstSign' = Since

\* get privateKey
GetPrivateKey(i) ==
    /\ i \in 1..Len(keys)
    /\ last' = Called("privateKey", i, <<>>, Ret(Ok(keys[i]), <<>>))
    /\ firstSign' = Since
    /\ UNCHANGED <<keys, ctorArg>>

\* get publicKey
GetPublicKey(i) ==
    /\ i \in 1..Len(keys)
    /\ last' = Called("publicKey", i, <<>>, computePublicKey(keys[i], FALSE))
    /\ firstSign' = Since
    /\ UNCHANGED <<keys, ctorArg>>

\* get compressedPublicKey
GetCompressedPublicKey(i) ==
    /\ i \in 1..Len(keys)
    /\ last' = Called("compressedPublicKey", i, <<>>, computePublicKey(keys[i], TRUE))
    /\ firstSign' = Since
    /\ UNCHANGED <<keys, ctorArg>>

\* instance.sign(digest)
Sign(i, digest) ==
    /\ i \in 1..Len(keys)
    /\ LET r == sign(keys[i], digest) IN
       /\ last' = Called("sign", i, [digest |-> digest], r)
       /\ firstSign' = IF ~firstSign.set /\ r.out.kind = "ok"
                       THEN [set |-> TRUE, inst |-> i, key |-> keys[i],
                             digest |-> digest, out |-> r.out, others |-> FALSE]
                       ELSE firstSign
    /\ UNCHANGED <<keys, ctorArg>>

\* instance.computeShardSecret(other)
ComputeShardSecret(i, other) ==
    /\ i \in 1..Len(keys)
    /\ last' = Called("computeShardSecret", i, [other |-> other],
                      computeShardSecret(keys[i], other))
    /\ firstSign' = Since
    /\ UNCHANGED <<keys, ctorArg>>

\* SigningKey.computePublicKey(key, compressed)
ComputePublicKey(key, compressed) ==
    /\ last' = Called("computePublicKey", 0, [key |-> key, compressed |-> compressed],
                      computePublicKey(key, compressed))
    /\ firstSign' = Since
    /\ UNCHANGED <<keys, ctorArg>>

\* SigningKey.recoverPublicKey(digest, signature)
RecoverPublicKey(digest, signature) ==
    /\ last' = Called("recoverPublicKey", 0, [digest |-> digest, signature |-> signature],
                      recoverPublicKey(digest, signature))
    /\ firstSign' = Since
    /\ UNCHANGED <<keys, ctorArg>>

\* SigningKey.addPoints(p0, p1, compressed)
AddPoints(p0, p1, compressed) ==
    /\ last' = Called("addPoints", 0, [p0 |-> p0, p1 |-> p1, compressed |-> compressed],
                      addPoints(p0, p1, compressed))
    /\ firstSign' = Since
    /\ UNCHANGED <<keys, ctorArg>>

Next ==
    \/ \E privateKey \in CtorInputs : Construct(privateKey)
    \/ \E i \in 1..MaxInst : GetPrivateKey(i)
    \/ \E i \in 1..MaxInst : GetPublicKey(i)
    \/ \E i \in 1..MaxInst : GetCompressedPublicKey(i)
    \/ \E i \in 1..MaxInst, digest \in DigestInputs : Sign(i, digest)
    \/ \E i \in 1..MaxInst, other \in KeyInputs : ComputeShardSecret(i, other)
    \/ \E key \in KeyInputs, compressed \in BOOLEAN : ComputePublicKey(key, compressed)
    \/ \E digest \in DigestInputs, signature \in SigInputs :
           RecoverPublicKey(digest, signature)
    \/ \E p0 \in PointInputs, p1 \in PointInputs, compressed \in BOOLEAN :
           AddPoints(p0, p1, compressed)

Spec == Init /\ [][Next]_vars

\* ------------------------------- the specification of the functions
\* One instance, of any private scalar (0 is a key the constructor takes and
\* the engine refuses), and the operations on inputs made from it: the
\* signatures it signs, the encodings of its public key, a peer's keys.
InitFn ==
    /\ \E k \in 0..MaxFnScalar :
           /\ keys = <<construct(Bytes("bytes", 32, <<k>>)).value>>
           /\ ctorArg = <<Bytes("bytes", 32, <<k>>)>>
    /\ last = NoCall
    /\ firstSign = NoSign

\* The digest word CurveN + 17 is above the order (the engine reduces it), and
\* on it the first nonce of the key 3 gives s = 0, so that the generator
\* goes on to its second nonce.
FnDigests ==
    {Bytes("hex", 32, <<d>>) : d \in 0..MaxFnDigest}
        \cup {Bytes("bytes", 32, <<CurveN + 17>>), Bytes("hex", 31, <<1>>),
              Bytes("bytes", 33, <<0, 1>>)}

FnKeys ==
    {keys[1]} \cup UNION {Encodings(PointMul(keys[i].data[1], G)) : i \in ValidInst}
        \cup BadKeys

PeerKeys ==
    UNION {Encodings(PointMul(b, G)) \cup {Bytes("hex", 32, <<b>>)} : b \in 1..MaxPeer}
        \cup {Bytes("hex", 31, <<1>>), Bytes("hex", 65, <<4, 2, 23>>)}

NextFn ==
    \/ \E digest \in FnDigests : Sign(1, digest)
    \/ \E digest \in FnDigests, signature \in Signed \cup FuzzSigs :
           RecoverPublicKey(digest, signature)
    \/ \E key \in FnKeys, compressed \in BOOLEAN : ComputePublicKey(key, compressed)
    \/ \E other \in PeerKeys : ComputeShardSecret(1, other)

SpecFn == InitFn /\ [][NextFn]_vars

\* ------------------------------------------------------- properties
\* The public key of the private key priv, uncompressed, as computePublicKey
\* gives it.
PublicKeyOf(priv) == computePublicKey(priv, FALSE).out

\* The last call was recoverPublicKey(d, sig) with a 32-byte d and sig the
\* signature instance i returns for d.
RecoversOwn(i) ==
    /\ last.op = "recoverPublicKey"
    /\ dataLength(last.args.digest) = 32
    /\ sign(keys[i], last.args.digest).out.kind = "ok"
    /\ last.args.signature = sign(keys[i], last.args.digest).out.value

\* C1: for every private key k the engine accepts and every 32-byte digest d,
\* recoverPublicKey(d, sign_k(d)) is computePublicKey(k), uncompressed (65
\* bytes), and the parity recoverPublicKey reads back from v is the recovery
\* bit the engine returned when signing.
C1_RecoveryCorrect ==
    \A i \in ValidInst :
        RecoversOwn(i) =>
            /\ last.out.kind = "ok"
            /\ last.out = PublicKeyOf(keys[i])
            /\ dataLength(last.out.value) = 65
            /\ SignatureFrom(last.args.signature).value.yParity
                   = signSync(getBytesCopy(last.args.digest), getBytesCopy(keys[i])).value.recid

\* C1 witness: the signature of an accepted key, with v = 28, has been
\* recovered.
C1_Witness ==
    \E i \in ValidInst :
        /\ RecoversOwn(i)
        /\ last.args.signature.v = 28
        /\ last.out.kind = "ok"

\* The recovery bit the engine returned to the last call of sign.
EngineRecid ==
    signSync(getBytesCopy(last.args.digest), getBytesCopy(keys[last.inst])).value.recid

\* C2: every signature sign returns has v = 27 when the engine's recovery bit
\* is 0 and v = 28 when it is 1, and no other v.
C2_LegacyV ==
    (last.op = "sign" /\ last.out.kind = "ok") =>
        /\ last.out.value.v \in {27, 28}
        /\ EngineRecid \in {0, 1}
        /\ (EngineRecid = 0 => last.out.value.v = 27)
        /\ (EngineRecid = 1 => last.out.value.v = 28)

\* C2 witness: sign has returned a signature whose recovery bit is 1.
C2_Witness ==
    /\ last.op = "sign"
    /\ last.out.kind = "ok"
    /\ EngineRecid = 1

\* The last call was the constructor on a value that is not 32 bytes long.
BadConstruct(call) ==
    /\ call.op = "constructor"
    /\ dataLength(call.args.privateKey) # 32

\* C3: constructing from a value that is not 32 bytes long fails with an
\* argument error that names privateKey and carries the redacted placeholder,
\* and makes no instance; every instance holds a private key of 32 bytes.
C3_ConstructorLength ==
    /\ [](/\ BadConstruct(last) =>
                 /\ last.out = ArgError("invalid private key", "privateKey", Redacted)
                 /\ last.inst = 0
          /\ \A i \in 1..Len(keys) : dataLength(keys[i]) = 32)
    /\ [][BadConstruct(last') => keys' = keys]_vars

\* C3 witness: a constructor call on 31 bytes has failed while an instance
\* exists.
C3_Witness ==
    /\ BadConstruct(last)
    /\ dataLength(last.args.privateKey) = 31
    /\ last.out.kind = "error"
    /\ Len(keys) > 0

\* C4: in sign and in recoverPublicKey a digest that is not 32 bytes long
\* gives an argument error naming digest, before any call into the engine or
\* any parsing of the signature.
C4_DigestFirst ==
    (last.op \in {"sign", "recoverPublicKey"} /\ dataLength(last.args.digest) # 32) =>
        /\ last.out = ArgError("invalid digest length", "digest", last.args.digest)
        /\ last.calls = <<>>

\* C4 witness: recoverPublicKey has been called with a 31-byte digest.
C4_Witness ==
    /\ last.op = "recoverPublicKey"
    /\ dataLength(last.args.digest) = 31
    /\ last.out.kind = "error"

\* The last call was recoverPublicKey on a 32-byte digest and a signature
\* the engine parses, and the engine recovered no point from them.
NoPointRecovered ==
    /\ last.op = "recoverPublicKey"
    /\ dataLength(last.args.digest) = 32
    /\ SignatureFrom(last.args.signature).kind = "ok"
    /\ LET sig == SignatureFrom(last.args.signature).value
           compact == SignatureFromCompact(getBytesCopy(concat(<<sig.r, sig.s>>)))
       IN /\ compact.kind = "ok"
          /\ engineRecoverPublicKey(getBytesCopy(last.args.digest),
                                    toDERRawBytes(compact.value), sig.yParity) = Null

\* C5: when the engine recovers no point, recoverPublicKey signals an
\* argument error naming signature; it never returns null or a partial key:
\* what it returns is a 65-byte uncompressed point of the curve.
C5_RecoverFailure ==
    /\ NoPointRecovered =>
           last.out = ArgError("invalid signautre for digest", "signature",
                               last.args.signature)
    /\ (last.op = "recoverPublicKey" /\ last.out.kind = "ok") =>
           /\ last.out.value.repr = "hex"
           /\ dataLength(last.out.value) = 65
           /\ Len(last.out.value.data) = 3
           /\ last.out.value.data[1] = 4
           /\ IsOnCurve(<<last.out.value.data[2], last.out.value.data[3]>>)

\* C5 witness: recoverPublicKey has been called on a signature from which
\* the engine recovers no point.
C5_Witness == NoPointRecovered /\ last.out.kind = "error"

\* The encodings of the public key of priv, made from what computePublicKey
\* returns for priv: uncompressed, compressed, and raw (the uncompressed key
\* without its prefix byte).
EncodingsOf(priv) ==
    {PublicKeyOf(priv).value,
     computePublicKey(priv, TRUE).out.value,
     Bytes("hex", 64, Tail(PublicKeyOf(priv).value.data))}

\* C6: the public key of a valid private key k, fed back to computePublicKey
\* in any of its three encodings, gives what computePublicKey gives for k,
\* for either flag: 33 bytes when compressed, 65 bytes otherwise.
C6_RoundTrip ==
    \A i \in ValidInst :
        (/\ last.op = "computePublicKey"
         /\ hexlify(last.args.key) \in EncodingsOf(keys[i])) =>
            /\ last.out.kind = "ok"
            /\ last.out = computePublicKey(keys[i], last.args.compressed).out
            /\ dataLength(last.out.value) = IF last.args.compressed THEN 33 ELSE 65

\* C6 witness: a raw 64-byte public key has been turned into the compressed
\* key.
C6_Witness ==
    \E i \in ValidInst :
        /\ last.op = "computePublicKey"
        /\ hexlify(last.args.key) \in EncodingsOf(keys[i])
        /\ dataLength(last.args.key) = 64
        /\ last.args.compressed
        /\ last.out.kind = "ok"

Params ==
    [constructor |-> {"privateKey"}, sign |-> {"digest"},
     computeShardSecret |-> {"other"}, computePublicKey |-> {"key"},
     recoverPublicKey |-> {"digest", "signature"}, addPoints |-> {"p0", "p1"},
     publicKey |-> {}, compressedPublicKey |-> {}, privateKey |-> {}]

\* C8: every operation that fails gives the caller a structured argument
\* error naming the parameter at fault; an exception of the engine never
\* reaches the caller as it is.
C8_StructuredErrors ==
    (last.op # "none" /\ last.out.kind # "ok") =>
        /\ last.out.kind = "error"
        /\ last.out.code = "INVALID_ARGUMENT"
        /\ last.out.argument \in Params[last.op]

\* The last call was i.computeShardSecret(other), with other a key of the
\* peer whose private scalar is b, in any encoding.
SharesWith(i, b) ==
    /\ last.op = "computeShardSecret"
    /\ last.inst = i
    /\ hexlify(last.args.other)
           \in EncodingsOf(Bytes("hex", 32, <<b>>)) \cup {Bytes("hex", 32, <<b>>)}

\* C9: A.computeShardSecret(B's key) is a secret, the same for every encoding
\* of B's key, and it is B.computeShardSecret(A.publicKey).
C9_SharedSecretSymmetric ==
    \A i \in ValidInst : \A b \in 1..MaxPeer :
        SharesWith(i, b) =>
            /\ last.out.kind = "ok"
            /\ last.out = computeShardSecret(Bytes("hex", 32, <<b>>),
                                             PublicKeyOf(keys[i]).value).out

====
